---- MODULE Spec2Model ----
(***************************************************************************)
(* One upload request travelling through the PDF-summary pipeline of       *)
(* summary-backend, for each of the eight variants of the service that the *)
(* repository holds (src/app.js holds two, src/unnamed/part_002 four).     *)
(* Strings are sequences of one-character strings.  The PDF library, the   *)
(* OCR library and the generative-text service are collaborators: what     *)
(* they answer is chosen nondeterministically from small sets.             *)
(***************************************************************************)
EXTENDS Integers, Sequences, FiniteSets, TLC

VARIABLES variant, file, pc, text, chunks, idx, fullSummary, i, delayMs,
          calls, waits, parseCalls, status, body,
          numPages, pagesRead, pagesGot, pagesCleaned, primaryText, ocrCalls,
          workerSrc

\* what parsePDF did: the pages the document has, the pages whose text it
\* requested (in order), the page objects it obtained and released, the text
\* of its primary path, the calls of extractTextWithOCR
extraction == <<numPages, pagesRead, pagesGot, pagesCleaned, primaryText,
                ocrCalls>>

vars == <<variant, file, pc, text, chunks, idx, fullSummary, i, delayMs,
          calls, waits, parseCalls, status, body, extraction, workerSrc>>

-----------------------------------------------------------------------------
(* Bounds of the model. *)

\* stands for maxChunkLength = 30000 (part_002:85,176,306,465), scaled down
maxChunkLength == 2
\* stands for the page cap Math.min(pdf.numPages, 50), scaled down
maxPagesCap == 2
\* longest document (in pages) the model uploads
MaxPages == 3

\* retryWithBackoff(fn, retries = 3, delayMs = 2000)
retries == 3
baseDelayMs == 2000

-----------------------------------------------------------------------------
(* Characters and strings. *)

LF == "\n"
Undefined == <<"undefined">>

IsWhitespace(c) == c \in {" ", LF}
\* the characters the regular expression's `.` refuses (no s flag)
IsLineTerminator(c) == c = LF

RECURSIVE TrimStart(_)
TrimStart(s) ==
  IF s = <<>> THEN <<>>
  ELSE IF IsWhitespace(Head(s)) THEN TrimStart(Tail(s)) ELSE s

RECURSIVE TrimEnd(_)
TrimEnd(s) ==
  IF s = <<>> THEN <<>>
  ELSE IF IsWhitespace(s[Len(s)]) THEN TrimEnd(SubSeq(s, 1, Len(s) - 1)) ELSE s

\* String.prototype.trim
Trim(s) == TrimEnd(TrimStart(s))

RECURSIVE Flatten(_)
Flatten(ss) == IF ss = <<>> THEN <<>> ELSE Head(ss) \o Flatten(Tail(ss))

RECURSIVE Join(_, _)
Join(ss, sep) ==
  IF ss = <<>> THEN <<>>
  ELSE IF Len(ss) = 1 THEN ss[1]
  ELSE ss[1] \o sep \o Join(Tail(ss), sep)

Min(a, b) == IF a <= b THEN a ELSE b

ParagraphBreak == <<LF, LF>>

-----------------------------------------------------------------------------
(* The variants. *)

AppPdfParse  == "app.js:1-91"
AppMuPdf     == "app.js:93-187"
Part000      == "part_000"
Part001      == "part_001"
P2Handler    == "part_002:1-112"
P2Keep       == "part_002:113-230"
P2Skip       == "part_002:232-371"
P2Ocr        == "part_002:372-530"

Variants == {AppPdfParse, AppMuPdf, Part000, Part001,
             P2Handler, P2Keep, P2Skip, P2Ocr}

\* multer({ limits: { fileSize: 4 * 1024 * 1024 } })
HasSizeLimit(v) == v \in {Part000, P2Handler, P2Keep, P2Skip, P2Ocr}
\* Math.min(pdf.numPages, 50)
HasPageCap(v) == v \in {Part000, P2Handler, P2Keep, P2Skip, P2Ocr}
\* summarizeText goes through retryWithBackoff
HasRetry(v) == v \in {AppMuPdf, Part001}
\* text.match(new RegExp(`.{1,${maxChunkLength}}`, 'g')) || []
HasChunking(v) == v \in {P2Handler, P2Keep, P2Skip, P2Ocr}
\* the chunk loop lives inside summarizeText
ChunksInSummarize(v) == v \in {P2Keep, P2Skip, P2Ocr}

-----------------------------------------------------------------------------
(* Chunker: text.match(new RegExp(`.{1,${maxChunkLength}}`, 'g')) || []      *)

Null == << <<"null">> >>

\* how many characters `.{1,n}` takes greedily at the head of s
RECURSIVE RunLength(_, _)
RunLength(s, n) ==
  IF n = 0 \/ s = <<>> \/ IsLineTerminator(Head(s)) THEN 0
  ELSE 1 + RunLength(Tail(s), n - 1)

\* every match of `.{1,n}` from left to right; where the pattern cannot
\* match (a line terminator) the global search moves on by one character
RECURSIVE MatchAll(_, _)
MatchAll(s, n) ==
  IF s = <<>> THEN <<>>
  ELSE LET k == RunLength(s, n) IN
       IF k = 0 THEN MatchAll(Tail(s), n)
       ELSE <<SubSeq(s, 1, k)>> \o MatchAll(SubSeq(s, k + 1, Len(s)), n)

\* String.prototype.match with a g pattern: null when nothing matches
StringMatch(s, n) ==
  LET m == MatchAll(s, n) IN IF m = <<>> THEN Null ELSE m

\* ... || []
TextChunks(s) ==
  LET m == StringMatch(s, maxChunkLength) IN IF m = Null THEN <<>> ELSE m

-----------------------------------------------------------------------------
(* Text Extractor: parsePDF of each variant.                               *)

\* what one page's items, joined by ' ', can read
PageTexts == {<<>>, <<"a">>, <<"a", "b">>}
\* what Tesseract.recognize can read: lines are separated by line feeds
OcrTexts == {<<>>, <<"a", LF, "b">>, <<"a", "b", "c", LF>>}
OcrOutcomes == {[ok |-> TRUE, text |-> t] : t \in OcrTexts}
                 \cup {[ok |-> FALSE, text |-> <<>>]}

PageSeqs == UNION {[1..n -> PageTexts] : n \in 0..MaxPages}

\* an uploaded document as the collaborators see it: whether it loads, its
\* pages, the page whose getTextContent rejects (0: none), the OCR outcome
Docs == {d \in [load : BOOLEAN, pages : PageSeqs, failPage : 0..MaxPages,
                ocr : OcrOutcomes] :
           /\ d.failPage <= Len(d.pages)
           /\ ~d.load => (d.pages = <<>> /\ d.failPage = 0)}

\* number of pages the loop visits
PagesToRead(v, d) ==
  IF HasPageCap(v) THEN Min(Len(d.pages), maxPagesCap) ELSE Len(d.pages)

\* text += ...join(' ') [+ ' '] over the visited pages
PageSeparator(v) ==
  IF v \in {AppMuPdf, P2Keep, P2Skip, P2Ocr} THEN <<" ">> ELSE <<>>

PagesText(v, d) ==
  LET n == PagesToRead(v, d) IN
  Flatten([p \in 1..n |-> d.pages[p] \o PageSeparator(v)])

ParseErrorMessage(v) ==
  CASE v \in {AppPdfParse, AppMuPdf, Part001} -> "Failed to parse PDF"
    [] v \in {Part000, P2Handler, P2Skip}     -> "PDF parsing failed"
    [] v \in {P2Keep, P2Ocr}                  -> "Failed to extract text from PDF"

ParseFailure(v) == [ok |-> FALSE, text |-> Undefined, error |-> ParseErrorMessage(v)]
ParseSuccess(t) == [ok |-> TRUE, text |-> t, error |-> ""]

\* extractTextWithOCR(buffer)
extractTextWithOCR(d) ==
  IF d.ocr.ok THEN [ok |-> TRUE, text |-> Trim(d.ocr.text)]
  ELSE [ok |-> FALSE, text |-> <<>>]

\* parsePDF(buffer): the text it returns, or the error it throws
parsePDF(v, d) ==
  IF ~d.load THEN ParseFailure(v)
  ELSE IF v # AppPdfParse /\ d.failPage \in 1..PagesToRead(v, d)
       THEN ParseFailure(v)
  ELSE LET t == PagesText(v, d) IN
       CASE v \in {P2Keep, P2Skip} -> ParseSuccess(Trim(t))
         [] v = P2Ocr ->
              IF Trim(t) = <<>>
              THEN LET o == extractTextWithOCR(d) IN
                   IF o.ok THEN ParseSuccess(Trim(o.text)) ELSE ParseFailure(v)
              ELSE ParseSuccess(Trim(t))
         [] OTHER -> ParseSuccess(t)

Raised == <<"error">>

\* the primary path fails: the document does not load, or a page's text
\* request rejects
PrimaryRaises(v, d) ==
  ~d.load \/ (v # AppPdfParse /\ d.failPage \in 1..PagesToRead(v, d))

\* the pages whose text is requested, in the order of the requests; the loop
\* stops at the page whose request rejects (pdfParse reads every page)
PagesRequested(v, d) ==
  IF ~d.load THEN <<>>
  ELSE LET n == PagesToRead(v, d)
           m == IF PrimaryRaises(v, d) THEN d.failPage ELSE n
       IN [p \in 1..m |-> p]

\* const page = await pdf.getPage(i)
UsesPageObjects(v) == v \notin {AppPdfParse, AppMuPdf}
\* page.cleanup()
CallsCleanup(v) == v \in {Part000, P2Handler, P2Keep, P2Skip, P2Ocr}

PagesObtained(v, d) ==
  IF UsesPageObjects(v)
  THEN {PagesRequested(v, d)[k] : k \in 1..Len(PagesRequested(v, d))}
  ELSE {}

\* cleanup() follows getTextContent in the loop body, outside any finally
PagesReleased(v, d) ==
  IF CallsCleanup(v)
  THEN {p \in PagesObtained(v, d) : ~(PrimaryRaises(v, d) /\ p = d.failPage)}
  ELSE {}

\* what the primary path yields: its text as parsePDF would return it
PrimaryText(v, d) ==
  IF PrimaryRaises(v, d) THEN Raised
  ELSE IF v \in {P2Keep, P2Skip, P2Ocr} THEN Trim(PagesText(v, d))
  ELSE PagesText(v, d)

\* if (!text.trim()) text = await extractTextWithOCR(buffer)
OcrInvoked(v, d) ==
  v = P2Ocr /\ ~PrimaryRaises(v, d) /\ Trim(PagesText(v, d)) = <<>>

-----------------------------------------------------------------------------
(* Module state shared by every request of a process.                      *)

\* GlobalWorkerOptions.workerSrc as the module sets it when it loads
ModuleWorkerSrc(v) ==
  CASE v = Part000 -> "pdfjs-dist/build/pdf.worker.mjs"
    [] v = P2Keep  -> ""
    [] v = P2Skip  -> "https://cdnjs.cloudflare.com/ajax/libs/pdf.js/3.11.174/pdf.worker.min.js"
    [] v = P2Ocr   -> "https://cdnjs.cloudflare.com/ajax/libs/pdf.js/3.0.279/pdf.worker.min.js"
    [] OTHER       -> "unset"

\* parsePDF of part_000 assigns GlobalWorkerOptions.workerSrc = false before
\* its first await
WorkerSrcInParse(v, w) == IF v = Part000 THEN "false" ELSE w

-----------------------------------------------------------------------------
(* Generative-text service: what one generateContent call can answer.      *)

\* generated texts: plain, padded with whitespace, whitespace only
GenTexts == {<<"x">>, <<" ", "y", LF>>, <<" ">>}

\* "wrapped": the text sits at result.response.candidates[0].content.parts[0].text
\* "bare":    the text sits at result.candidates[0].content.parts[0].text
\* "nocandidates": a response without candidates
\* "error429": the call rejects with a rate-limit error; "error": any other
Replies == {[kind |-> k, text |-> t] : k \in {"wrapped", "bare"}, t \in GenTexts}
             \cup {[kind |-> k, text |-> Undefined] :
                     k \in {"nocandidates", "error429", "error"}}

Rejects(r) == r.kind \in {"error429", "error"}

\* the path the variant reads: app.js:54 reads response?.candidates, every
\* other variant response?.response?.candidates
ReadsPath(v) == IF v = AppPdfParse THEN "bare" ELSE "wrapped"

\* response?....?.text?.trim()
ChunkSummary(v, r) ==
  IF r.kind = ReadsPath(v) THEN Trim(r.text) ELSE Undefined

\* JavaScript truthiness of that value
Truthy(sm) == sm # Undefined /\ sm # <<>>

SummarizeErrorMessage(v) ==
  CASE v = AppPdfParse           -> "Failed to summarize text"
    [] v \in {Part000, P2Skip, P2Ocr} -> "Summarization failed"
    [] v = P2Keep                -> "AI summarization failed"
    [] v \in {AppMuPdf, Part001} -> "Exceeded retry attempts"
    [] v = P2Handler             -> "File processing failed"

-----------------------------------------------------------------------------
(* Responses. *)

NoBody == [success |-> "absent", summary |-> Undefined, error |-> ""]

\* res.status(400).json({ error })
BadRequest(msg) == [success |-> "absent", summary |-> Undefined, error |-> msg]
\* res.json({ success: true, summary })
Success(sm) == [success |-> "true", summary |-> sm, error |-> ""]
\* res.status(500).json({ success: false, error })
Failure(msg) == [success |-> "false", summary |-> Undefined, error |-> msg]

Files == {[present |-> FALSE, mimetype |-> "", oversize |-> FALSE]}
           \cup [present : {TRUE}, mimetype : {"application/pdf", "image/png"},
                 oversize : BOOLEAN]

Init ==
  /\ variant \in Variants
  /\ file \in Files
  /\ pc = "received"
  /\ text = Undefined
  /\ chunks = <<>>
  /\ idx = 0
  /\ fullSummary = <<>>
  /\ i = 0
  /\ delayMs = baseDelayMs
  /\ calls = <<>>
  /\ waits = <<>>
  /\ parseCalls = 0
  /\ status = 0
  /\ body = NoBody
  /\ numPages = 0
  /\ pagesRead = <<>>
  /\ pagesGot = {}
  /\ pagesCleaned = {}
  /\ primaryText = Undefined
  /\ ocrCalls = 0
  /\ workerSrc = ModuleWorkerSrc(variant)

Respond(st, b) ==
  /\ pc' = "done"
  /\ status' = st
  /\ body' = b

-----------------------------------------------------------------------------
(* upload.single('file'): multer reads the multipart body.  Past the       *)
(* fileSize limit it hands a MulterError to next(err); no variant installs *)
(* an error middleware, so Express's default handler answers 500 and the   *)
(* route handler never runs.                                               *)

Multer ==
  /\ pc = "received"
  /\ IF HasSizeLimit(variant) /\ file.present /\ file.oversize
     THEN Respond(500, [success |-> "absent", summary |-> Undefined,
                        error |-> "File too large"])
     ELSE /\ pc' = "handler"
          /\ UNCHANGED <<status, body>>
  /\ UNCHANGED <<variant, file, text, chunks, idx, fullSummary, i, delayMs,
                 calls, waits, parseCalls, extraction, workerSrc>>

InvalidTypeMessage(v) ==
  IF v \in {AppPdfParse, AppMuPdf, Part001}
  THEN "Invalid file type. Only PDF files are allowed."
  ELSE "Only PDF files are allowed"

(* The route handler up to its first await: validation, then parsePDF.     *)
Handler ==
  /\ pc = "handler"
  /\ IF ~file.present
     THEN /\ Respond(400, BadRequest("No file uploaded"))
          /\ UNCHANGED <<parseCalls, workerSrc>>
     ELSE IF file.mimetype # "application/pdf"
     THEN /\ Respond(400, BadRequest(InvalidTypeMessage(variant)))
          /\ UNCHANGED <<parseCalls, workerSrc>>
     ELSE IF variant = P2Handler /\ file.oversize
     THEN /\ Respond(400, BadRequest("File size exceeds 4MB limit"))
          /\ UNCHANGED <<parseCalls, workerSrc>>
     ELSE /\ pc' = "parsing"
          /\ parseCalls' = parseCalls + 1
          /\ workerSrc' = WorkerSrcInParse(variant, workerSrc)
          /\ UNCHANGED <<status, body>>
  /\ UNCHANGED <<variant, file, text, chunks, idx, fullSummary, i, delayMs,
                 calls, waits, extraction>>

(* parsePDF settles; the handler runs on to its next await or its response. *)
ParseResolve ==
  /\ pc = "parsing"
  /\ \E d \in Docs :
       LET r == parsePDF(variant, d) IN
       /\ numPages' = IF d.load THEN Len(d.pages) ELSE 0
       /\ pagesRead' = PagesRequested(variant, d)
       /\ pagesGot' = PagesObtained(variant, d)
       /\ pagesCleaned' = PagesReleased(variant, d)
       /\ primaryText' = PrimaryText(variant, d)
       /\ ocrCalls' = IF OcrInvoked(variant, d) THEN ocrCalls + 1 ELSE ocrCalls
       /\ IF ~r.ok
          THEN /\ Respond(500, Failure(IF variant = P2Handler
                                       THEN "File processing failed" ELSE r.error))
               /\ UNCHANGED <<text, chunks, idx>>
          ELSE /\ text' = r.text
               /\ IF HasChunking(variant)
                  THEN /\ chunks' = TextChunks(r.text)
                       /\ IF chunks' = <<>>
                          THEN /\ Respond(200, Success(<<>>))
                               /\ UNCHANGED idx
                          ELSE /\ idx' = 1
                               /\ pc' = IF ChunksInSummarize(variant)
                                        THEN "calling" ELSE "summarizing"
                               /\ UNCHANGED <<status, body>>
                  ELSE /\ pc' = "calling"
                       /\ UNCHANGED <<chunks, idx, status, body>>
  /\ UNCHANGED <<variant, file, fullSummary, i, delayMs, calls, waits,
                 parseCalls, workerSrc>>

\* a loop that gives up one failure too late
IsLastAttempt_OffByOne(k) == k = retries

\* retryWithBackoff: if (i === retries - 1) throw new Error("Exceeded retry attempts")
IsLastAttempt(k) == k = retries - 1

\* a backoff that forgets to grow
NextDelay_NoDoubling(d) == d

\* retryWithBackoff: delayMs *= 2
NextDelay(d) == d * 2

\* what one chunk adds to fullSummary inside summarizeText
ChunkContribution(v, sm) ==
  IF Truthy(sm) THEN sm \o ParagraphBreak
  ELSE IF v = P2Keep THEN ParagraphBreak   \* (... || "") + "\n\n"
  ELSE <<>>                                \* if (chunkSummary) { ... }

(* One model.generateContent call settles with reply r.                    *)
CallResolve ==
  /\ pc = "calling"
  /\ \E r \in Replies :
       LET sm == ChunkSummary(variant, r) IN
       /\ calls' = Append(calls, [chunk |-> idx, reply |-> r])
       /\ IF ChunksInSummarize(variant)
          THEN IF Rejects(r)
               THEN /\ Respond(500, Failure(SummarizeErrorMessage(variant)))
                    /\ UNCHANGED <<idx, fullSummary>>
               ELSE LET acc == fullSummary \o ChunkContribution(variant, sm) IN
                    /\ fullSummary' = acc
                    /\ IF idx = Len(chunks)
                       THEN /\ Respond(200, Success(Trim(acc)))
                            /\ UNCHANGED idx
                       ELSE /\ idx' = idx + 1
                            /\ UNCHANGED <<pc, status, body>>
          ELSE /\ UNCHANGED <<idx, fullSummary>>
               /\ IF ~Rejects(r) /\ Truthy(sm)
                  THEN Respond(200, Success(sm))
                  ELSE IF HasRetry(variant) /\ ~IsLastAttempt(i)
                  THEN /\ pc' = "backoff"
                       /\ UNCHANGED <<status, body>>
                  ELSE Respond(500, Failure(SummarizeErrorMessage(variant)))
  /\ UNCHANGED <<variant, file, text, chunks, i, delayMs, waits, parseCalls,
                 extraction, workerSrc>>

(* The backoff timer of retryWithBackoff fires; the for loop goes round.   *)
TimerFires ==
  /\ pc = "backoff"
  /\ waits' = Append(waits, delayMs)
  /\ delayMs' = NextDelay(delayMs)
  /\ i' = i + 1
  /\ IF i + 1 < retries
     THEN /\ pc' = "calling"
          /\ UNCHANGED <<status, body>>
     ELSE Respond(200, Success(Undefined))   \* the loop ends: returns undefined
  /\ UNCHANGED <<variant, file, text, chunks, idx, fullSummary, calls,
                 parseCalls, extraction, workerSrc>>

\* summaries a summarizeText that honours its contract can return
AcceptedSummaries == {Trim(t) : t \in GenTexts} \ {<<>>}

(* part_002:1-112 calls a summarizeText it does not define; here it is its  *)
(* contract: a non-empty summary of the chunk, or a SummarizationError.    *)
(* The handler's loop (lines 88-95) is the code's.                         *)
SummarizeTextReturns ==
  /\ pc = "summarizing"
  /\ \/ \E sm \in AcceptedSummaries :
          LET acc == fullSummary \o sm \o ParagraphBreak IN
          /\ calls' = Append(calls, [chunk |-> idx,
                                     reply |-> [kind |-> "summary", text |-> sm]])
          /\ fullSummary' = acc
          /\ IF idx = Len(chunks)
             THEN /\ Respond(200, Success(acc))
                  /\ UNCHANGED idx
             ELSE /\ idx' = idx + 1
                  /\ UNCHANGED <<pc, status, body>>
     \/ /\ calls' = Append(calls, [chunk |-> idx,
                                   reply |-> [kind |-> "summaryError",
                                              text |-> Undefined]])
        /\ Respond(500, Failure(SummarizeErrorMessage(variant)))
        /\ UNCHANGED <<idx, fullSummary>>
  /\ UNCHANGED <<variant, file, text, chunks, i, delayMs, waits, parseCalls,
                 extraction, workerSrc>>

Next ==
  \/ Multer
  \/ Handler
  \/ ParseResolve
  \/ CallResolve
  \/ TimerFires
  \/ SummarizeTextReturns

Spec == Init /\ [][Next]_vars

TypeOK ==
  /\ variant \in Variants
  /\ file \in Files
  /\ pc \in {"received", "handler", "parsing", "calling", "backoff",
             "summarizing", "done"}
  /\ idx \in 0..Len(chunks)
  /\ i \in 0..retries
  /\ parseCalls \in 0..1
  /\ status \in {0, 200, 400, 500}
  /\ (pc = "done") = (status # 0)

-----------------------------------------------------------------------------
(* Properties.                                                             *)

\* the chunker has run on the extracted text
Chunked == HasChunking(variant) /\ text # Undefined

Ceil(a, b) == (a + b - 1) \div b

\* C1: the chunks of the extracted text, concatenated in order, are the
\* extracted text itself, whatever characters it holds.
C1_LosslessSplit == Chunked => Flatten(chunks) = text

\* C2: a text no longer than the maximum chunk length, the empty text and
\* texts with line breaks included, gives exactly one chunk, the whole text.
C2_ShortTextOneChunk ==
  (Chunked /\ Len(text) <= maxChunkLength) => chunks = <<text>>

\* C3: a text longer than the maximum chunk length gives ceil(L / max)
\* chunks, none longer than the maximum, all but the last of exactly the
\* maximum length.
C3_FixedWindows ==
  (Chunked /\ Len(text) > maxChunkLength) =>
     /\ Len(chunks) = Ceil(Len(text), maxChunkLength)
     /\ \A c \in 1..Len(chunks) : Len(chunks[c]) <= maxChunkLength
     /\ \A c \in 1..(Len(chunks) - 1) : Len(chunks[c]) = maxChunkLength

\* every call made so far failed with the rate-limit error
AllTransient == \A j \in 1..Len(calls) : calls[j].reply.kind = "error429"

\* C4: when every attempt fails with a rate-limit error, retryWithBackoff
\* calls fn exactly `retries` times, never more, waits after every failed
\* attempt but the last, and fails with "Exceeded retry attempts".
C4_ExhaustedRetries ==
  (HasRetry(variant) /\ AllTransient) =>
     /\ Len(calls) <= retries
     /\ Len(waits) <= retries - 1
     /\ pc = "backoff" => Len(calls) < retries
     /\ (pc = "done" /\ calls # <<>>) =>
          /\ Len(calls) = retries
          /\ Len(waits) = retries - 1
          /\ status = 500
          /\ body = Failure("Exceeded retry attempts")

C4_Witness ==
  /\ HasRetry(variant) /\ pc = "done" /\ AllTransient
  /\ Len(calls) = retries /\ status = 500

\* C5: when the first attempt fails with an error that is not a rate-limit
\* error, the request fails at once: one remote call, no delay, HTTP 500.
C5_NonTransientFailsAtOnce ==
  (calls # <<>> /\ calls[1].reply.kind = "error") =>
     /\ pc = "done"
     /\ status = 500
     /\ Len(calls) = 1
     /\ waits = <<>>

\* a reply the variant accepts: generated text, non-empty once trimmed, at
\* the path the variant reads
Accepted(v, r) ==
  \/ r.kind = "summary"
  \/ ~Rejects(r) /\ r.kind # "summaryError" /\ Truthy(ChunkSummary(v, r))

RECURSIVE LeadingTransient(_)
LeadingTransient(cs) ==
  IF cs = <<>> \/ cs[1].reply.kind # "error429" THEN 0
  ELSE 1 + LeadingTransient(Tail(cs))

\* C6: when the call fails k times with a rate-limit error and then
\* succeeds (k < retries), summarizeText returns the result of attempt k+1
\* after exactly k+1 calls, having waited 2000, 4000, ... ms: the delay
\* before attempt j+1 is 2000 * 2^(j-1), so the delays never decrease.
C6_TransientThenSuccess ==
  LET k == LeadingTransient(calls) IN
  (HasRetry(variant) /\ Len(calls) > k /\ Accepted(variant, calls[k + 1].reply)) =>
     /\ k < retries
     /\ Len(calls) = k + 1
     /\ pc = "done"
     /\ status = 200
     /\ body = Success(ChunkSummary(variant, calls[k + 1].reply))
     /\ waits = [j \in 1..k |-> baseDelayMs * 2 ^ (j - 1)]
     /\ \A j \in 1..(k - 1) : waits[j] <= waits[j + 1]

C6_Witness ==
  /\ HasRetry(variant) /\ pc = "done" /\ status = 200
  /\ Len(calls) = retries
  /\ LeadingTransient(calls) = retries - 1
  /\ waits = <<2000, 4000>>

\* the units of text the variant summarizes one by one
Units == IF HasChunking(variant) THEN 1..Len(chunks) ELSE {0}

\* the last reply received for unit c was accepted
UnitAccepted(c) ==
  \E j \in 1..Len(calls) :
     /\ calls[j].chunk = c
     /\ Accepted(variant, calls[j].reply)
     /\ \A m \in (j + 1)..Len(calls) : calls[m].chunk # c

\* the last reply received for unit c was empty or malformed
UnitEmpty(c) ==
  \E j \in 1..Len(calls) :
     /\ calls[j].chunk = c
     /\ ~Rejects(calls[j].reply)
     /\ ~Accepted(variant, calls[j].reply)
     /\ \A m \in (j + 1)..Len(calls) : calls[m].chunk # c

\* C7: a request whose chunk got an empty or malformed response ends with
\* HTTP 500, and HTTP 200 with success: true is sent only when every chunk
\* produced a non-empty summary: no partial summary is returned.
C7_NoPartialSummary ==
  pc = "done" =>
     /\ (\E c \in Units : UnitEmpty(c)) => status = 500
     /\ (status = 200 /\ body.success = "true") =>
           \A c \in Units : UnitAccepted(c)

\* s_c: the summary the code obtained for chunk c (empty when none)
SummaryOf(c) ==
  LET js == {j \in 1..Len(calls) : calls[j].chunk = c}
      r  == calls[CHOOSE j \in js : \A m \in js : m <= j].reply
      sm == IF r.kind = "summary" THEN r.text ELSE ChunkSummary(variant, r)
  IN IF Truthy(sm) THEN sm ELSE <<>>

\* C8: on success the summary of a chunking variant is
\* trim(join(s_1, ..., s_n, "\n\n")), the per-chunk summaries in chunk order.
C8_SummaryIsTrimmedJoin ==
  (HasChunking(variant) /\ pc = "done" /\ status = 200 /\ body.success = "true") =>
     /\ \A c \in 1..Len(chunks) : \E j \in 1..Len(calls) : calls[j].chunk = c
     /\ body.summary =
          Trim(Join([c \in 1..Len(chunks) |-> SummaryOf(c)], ParagraphBreak))

\* no file, a media type other than application/pdf, or a file above the
\* size limit the variant configures
ValidationFailure ==
  \/ ~file.present
  \/ file.mimetype # "application/pdf"
  \/ HasSizeLimit(variant) /\ file.oversize

\* C9: a request with a validation failure is answered with HTTP 400 and an
\* error body, and neither parsePDF nor summarizeText runs for it.
C9_ValidationRejects ==
  ValidationFailure =>
     /\ parseCalls = 0
     /\ calls = <<>>
     /\ pc = "done" => (status = 400 /\ body.error # "" /\ body.success # "true")

\* the service answered with non-empty generated text at its documented path
GoodServiceReply(r) ==
  \/ r.kind = "wrapped" /\ Trim(r.text) # <<>>
  \/ r.kind = "summary"

\* C10: a valid upload whose extraction gives non-empty text, with a service
\* that answers every call with non-empty text at the documented path, ends
\* with HTTP 200, success: true and a non-empty summary.
C10_HappyPath ==
  ( /\ pc = "done"
    /\ ~ValidationFailure
    /\ text # Undefined /\ text # <<>>
    /\ \A j \in 1..Len(calls) : GoodServiceReply(calls[j].reply) ) =>
     /\ status = 200
     /\ body.success = "true"
     /\ body.summary # Undefined
     /\ body.summary # <<>>

\* parsePDF has been called and has returned or thrown
ParseExited == parseCalls = 1 /\ pc # "parsing"
\* parsePDF has returned a text
ParseReturned == text # Undefined

\* C11: in a variant without OCR fallback, a PDF whose extraction yields no
\* text ends with HTTP 500, never with HTTP 200 and success: true, and no
\* summarization call is made with the empty text.
C11_EmptyTextFails ==
  (variant # P2Ocr /\ ParseReturned /\ text = <<>>) =>
     /\ calls = <<>>
     /\ pc = "done" => (status = 500 /\ body.success # "true" /\ body.error # "")

\* C12: in every variant whose parsePDF walks the pages itself, parsePDF
\* requests the text of pages 1..min(N, cap) in increasing order and of no
\* page beyond the cap.
C12_PageCap ==
  variant # AppPdfParse =>
     /\ \A k \in 1..Len(pagesRead) : pagesRead[k] <= maxPagesCap
     /\ ParseReturned =>
          pagesRead = [p \in 1..Min(numPages, maxPagesCap) |-> p]

\* C13: in the OCR variant parsePDF calls extractTextWithOCR whenever the
\* primary path raises or yields fewer than 10 characters, and it never
\* returns a text of fewer than 10 characters.
C13_OcrFallback ==
  (variant = P2Ocr /\ ParseExited) =>
     /\ (primaryText = Raised \/ Len(primaryText) < 10) => ocrCalls = 1
     /\ ParseReturned => Len(text) >= 10

\* C14: when parsePDF has returned or thrown, every page object it obtained
\* through getPage has had cleanup() called.
C14_PagesReleased == ParseExited => pagesGot \subseteq pagesCleaned

\* C15: handling a request writes no module-level or library-global state:
\* the worker configuration stays what the module set when it loaded.
C15_NoSharedWrites == workerSrc = ModuleWorkerSrc(variant)

====
